---- MODULE Spec2Model ----
(***************************************************************************)
(* Model of the backend core of bun-monorepo-template: the Result/AppError *)
(* kernel, the Item and User entities, the item and auth repositories and  *)
(* the use-cases built on them.                                            *)
(*                                                                         *)
(* Strings are modelled by their run-length encoding over character        *)
(* classes: a string is a sequence of runs [c |-> class, n |-> count],     *)
(* class "ws" (whitespace), "ch" (any other character) or "at" ('@'),      *)
(* adjacent runs having different classes.  length, trim and includes are  *)
(* computed on that encoding as String.prototype computes them.            *)
(*                                                                         *)
(* Every await on the database is one atomic step; the synchronous code    *)
(* that follows it up to the next await belongs to the same step.          *)
(***************************************************************************)
EXTENDS Integers, Sequences, FiniteSets, TLC

VARIABLES now, ticks, items, nextId, creator, everActive, calls, last,
          users, nextUserId, registered, authCalls, authLast, loginFailures,
          ent, entLast, http, kernel

vars == <<now, ticks, items, nextId, creator, everActive, calls, last,
          users, nextUserId, registered, authCalls, authLast, loginFailures,
          ent, entLast, http, kernel>>

itemVars == <<items, nextId, creator, everActive, calls, last>>
authVars ==
  <<users, nextUserId, registered, authCalls, authLast, loginFailures>>
entVars == <<ent, entLast>>
httpVars == <<http>>
kernelVars == <<kernel>>

-----------------------------------------------------------------------------
(* Bounds *)

MaxUsers == 2
MaxItems == 1
MaxCalls == 2
MaxTicks == 1
MaxPad == 1
MaxEmails == 2
MaxPasswords == 2
MaxSalt == 1
MaxRows == 4
MaxPage == 3
MaxLimit == 2
MaxValue == 7

(* Program constants *)

NAME_MAX == 200
DESC_MAX == 1000
MsPerSec == 1000

UserIds == 1..MaxUsers
ItemIds == 1..MaxItems
RowIds == 1..MaxRows
CallIds == 1..MaxCalls

NULL == [null |-> TRUE]
UNDEFINED == <<[c |-> "undefined", n |-> 0]>>

-----------------------------------------------------------------------------
(* Strings *)

Run(c, n) == [c |-> c, n |-> n]

RECURSIVE length(_)
length(s) == IF s = <<>> THEN 0 ELSE Head(s).n + length(Tail(s))

RECURSIVE TrimStart(_)
TrimStart(s) ==
  IF s = <<>> THEN s
  ELSE IF Head(s).c = "ws" THEN TrimStart(Tail(s)) ELSE s

RECURSIVE TrimEnd(_)
TrimEnd(s) ==
  IF s = <<>> THEN s
  ELSE IF s[Len(s)].c = "ws"
       THEN TrimEnd(SubSeq(s, 1, Len(s) - 1))
       ELSE s

Trim(s) == TrimEnd(TrimStart(s))

Includes(s, cls) == \E i \in DOMAIN s : s[i].c = cls

(* pad leading blanks, core characters, pad trailing blanks *)
Padded(lead, core, trail) ==
  (IF lead > 0 THEN <<Run("ws", lead)>> ELSE <<>>)
  \o (IF core > 0 THEN <<Run("ch", core)>> ELSE <<>>)
  \o (IF trail > 0 /\ core > 0 THEN <<Run("ws", trail)>> ELSE <<>>)

-----------------------------------------------------------------------------
(* Result / AppError kernel *)

ok(value) == [ok |-> TRUE, value |-> value]
err(error) == [ok |-> FALSE, error |-> error]

isOk(result) == result.ok
isErr(result) == ~result.ok

mapKeepingValue(result, fn) ==
  IF result.ok THEN ok(result.value) ELSE result

(* fn is a function on the values                                          *)
map(result, fn) ==
  IF result.ok THEN ok(fn[result.value]) ELSE result

validationError(message) == [code |-> "VALIDATION_ERROR", message |-> message]
notFoundError(message) == [code |-> "NOT_FOUND", message |-> message]
unauthorizedError(message) == [code |-> "UNAUTHORIZED", message |-> message]
conflictError(message) == [code |-> "CONFLICT", message |-> message]

ItemNotFoundMessage(id) == "Item with id '" \o ToString(id) \o "' not found"

-----------------------------------------------------------------------------
(* Item entity.  Dates are milliseconds since the epoch; new Date() reads  *)
(* the clock `now`, crypto.randomUUID() is the fresh id passed in.         *)

ItemCreateTrimmedLimits(name, description, userId, id, t) ==
  IF length(Trim(name)) = 0
  THEN err(validationError("Item name cannot be empty"))
  ELSE IF length(Trim(name)) > NAME_MAX
  THEN err(validationError("Item name cannot exceed 200 characters"))
  ELSE IF length(Trim(description)) > DESC_MAX
  THEN err(validationError("Item description cannot exceed 1000 characters"))
  ELSE ok([id |-> id, name |-> Trim(name), description |-> Trim(description),
           status |-> "inactive", userId |-> userId,
           createdAt |-> t, updatedAt |-> t])

ItemCreate(name, description, userId, id, t) ==
  IF length(Trim(name)) = 0
  THEN err(validationError("Item name cannot be empty"))
  ELSE IF length(name) > NAME_MAX
  THEN err(validationError("Item name cannot exceed 200 characters"))
  ELSE IF length(description) > DESC_MAX
  THEN err(validationError("Item description cannot exceed 1000 characters"))
  ELSE ok([id |-> id, name |-> Trim(name), description |-> Trim(description),
           status |-> "inactive", userId |-> userId,
           createdAt |-> t, updatedAt |-> t])

ItemActivateIdempotent(this, t) ==
  ok([this EXCEPT !.status = "active", !.updatedAt = t])

(* activate mutates `this` in place and returns it: the value of an ok     *)
(* result is the object after the mutation; on failure it is untouched.    *)
ItemActivate(this, t) ==
  IF this.status = "active"
  THEN err(validationError("Item is already active"))
  ELSE ok([this EXCEPT !.status = "active", !.updatedAt = t])

ItemDeactivateIdempotent(this, t) ==
  ok([this EXCEPT !.status = "inactive", !.updatedAt = t])

ItemDeactivate(this, t) ==
  IF this.status = "inactive"
  THEN err(validationError("Item is already inactive"))
  ELSE ok([this EXCEPT !.status = "inactive", !.updatedAt = t])

ItemUpdateDetailsResetting(this, name, description, t) ==
  IF name # UNDEFINED /\ length(Trim(name)) = 0
  THEN err(validationError("Item name cannot be empty"))
  ELSE IF name # UNDEFINED /\ length(name) > NAME_MAX
  THEN err(validationError("Item name cannot exceed 200 characters"))
  ELSE IF description # UNDEFINED /\ length(description) > DESC_MAX
  THEN err(validationError("Item description cannot exceed 1000 characters"))
  ELSE ok([id |-> this.id,
           name |-> IF name # UNDEFINED THEN Trim(name) ELSE this.name,
           description |-> IF description # UNDEFINED THEN Trim(description)
                           ELSE <<>>,
           status |-> this.status, userId |-> this.userId,
           createdAt |-> this.createdAt, updatedAt |-> t])

ItemUpdateDetails(this, name, description, t) ==
  IF name # UNDEFINED /\ length(Trim(name)) = 0
  THEN err(validationError("Item name cannot be empty"))
  ELSE IF name # UNDEFINED /\ length(name) > NAME_MAX
  THEN err(validationError("Item name cannot exceed 200 characters"))
  ELSE IF description # UNDEFINED /\ length(description) > DESC_MAX
  THEN err(validationError("Item description cannot exceed 1000 characters"))
  ELSE ok([id |-> this.id,
           name |-> IF name # UNDEFINED THEN Trim(name) ELSE this.name,
           description |-> IF description # UNDEFINED THEN Trim(description)
                           ELSE this.description,
           status |-> this.status, userId |-> this.userId,
           createdAt |-> this.createdAt, updatedAt |-> t])

toISOString(t) == <<"ISO", t>>

ItemToResponse(this) ==
  [id |-> this.id, name |-> this.name, description |-> this.description,
   status |-> this.status, createdAt |-> toISOString(this.createdAt),
   updatedAt |-> toISOString(this.updatedAt)]

-----------------------------------------------------------------------------
(* items table and repository.  A column integer(..., {mode: 'timestamp'}) *)
(* holds whole seconds: a Date is written as floor(ms / 1000) and read     *)
(* back as seconds * 1000.                                                 *)

mapToDriverValue(t) == t \div MsPerSec
mapFromDriverValue(v) == v * MsPerSec

ItemFromPersistence(row) ==
  [id |-> row.id, name |-> row.name, description |-> row.description,
   status |-> row.status, userId |-> row.userId,
   createdAt |-> mapFromDriverValue(row.createdAt),
   updatedAt |-> mapFromDriverValue(row.updatedAt)]

RepoFindByIdAnyOwner(tbl, id, userId) ==
  IF tbl[id] = NULL THEN NULL ELSE ItemFromPersistence(tbl[id])

RepoFindById(tbl, id, userId) ==
  IF tbl[id] = NULL \/ tbl[id].userId # userId THEN NULL
  ELSE ItemFromPersistence(tbl[id])

(* the rows of a user in an order in which a SELECT without ORDER BY may   *)
(* produce them: any order                                                 *)
RowOrders(tbl, userId) ==
  LET owned == {i \in DOMAIN tbl : tbl[i] # NULL /\ tbl[i].userId = userId}
  IN {order \in [1..Cardinality(owned) -> owned] :
        \A j, k \in DOMAIN order : j # k => order[j] # order[k]}

RepoFindAllByUserUnpaged(tbl, userId, page, limit, order) ==
  [items |-> [k \in DOMAIN order |-> ItemFromPersistence(tbl[order[k]])],
   total |-> Len(order)]

(* both statements are issued before findAllByUser first suspends: the     *)
(* page, LIMIT limit OFFSET (page - 1) * limit, and the count              *)
RepoFindAllByUser(tbl, userId, page, limit, order) ==
  LET offset == (page - 1) * limit
      upto == IF offset + limit < Len(order) THEN offset + limit
              ELSE Len(order)
      rows == SubSeq(order, offset + 1, upto)
  IN [items |-> [k \in DOMAIN rows |-> ItemFromPersistence(tbl[rows[k]])],
      total |-> Len(order)]

RepoCreateOwnerless(tbl, item) ==
  [tbl EXCEPT ![item.id] =
     [id |-> item.id, name |-> item.name, description |-> item.description,
      status |-> item.status, userId |-> 0,
      createdAt |-> mapToDriverValue(item.createdAt),
      updatedAt |-> mapToDriverValue(item.updatedAt)]]

RepoCreate(tbl, item) ==
  [tbl EXCEPT ![item.id] =
     [id |-> item.id, name |-> item.name, description |-> item.description,
      status |-> item.status, userId |-> item.userId,
      createdAt |-> mapToDriverValue(item.createdAt),
      updatedAt |-> mapToDriverValue(item.updatedAt)]]

RepoUpdateRestamping(tbl, item) ==
  IF tbl[item.id] = NULL \/ tbl[item.id].userId # item.userId THEN tbl
  ELSE [tbl EXCEPT ![item.id] =
          [@ EXCEPT !.name = item.name, !.description = item.description,
                    !.status = item.status,
                    !.createdAt = mapToDriverValue(item.updatedAt),
                    !.updatedAt = mapToDriverValue(item.updatedAt)]]

(* UPDATE ... SET name, description, status, updated_at WHERE id AND user  *)
RepoUpdate(tbl, item) ==
  IF tbl[item.id] = NULL \/ tbl[item.id].userId # item.userId THEN tbl
  ELSE [tbl EXCEPT ![item.id] =
          [@ EXCEPT !.name = item.name, !.description = item.description,
                    !.status = item.status,
                    !.updatedAt = mapToDriverValue(item.updatedAt)]]

RepoDeleteSelectAnyOwner(tbl, id, userId) == tbl[id] # NULL

(* the SELECT of ItemsRepository.delete: is there a row to delete?         *)
RepoDeleteSelect(tbl, id, userId) ==
  tbl[id] # NULL /\ tbl[id].userId = userId

RepoDeleteRowKeeping(tbl, id, userId) == tbl

RepoDeleteRow(tbl, id, userId) ==
  IF tbl[id] # NULL /\ tbl[id].userId = userId
  THEN [tbl EXCEPT ![id] = NULL] ELSE tbl

-----------------------------------------------------------------------------
(* Item use-cases.  A call slot holds one invocation that is suspended on  *)
(* an await; `last` is the record of the invocation that returned most     *)
(* recently: its arguments, what its lookup observed (`seen`, `pre`), the  *)
(* entity it wrote (`item`), the Result it returned (`res`), whether its   *)
(* returning step changed the items table (`touched`) and the row of its   *)
(* id after that step (`stored`).                                          *)
(* For a list call `pre` is the set of ids the user owns when it runs.     *)
(* `creator` remembers who created each id, `everActive` the ids that an   *)
(* activate call has written.                                              *)

IdleCall ==
  [op |-> "none", pc |-> "idle", userId |-> 0, id |-> 0,
   name |-> UNDEFINED, description |-> UNDEFINED, page |-> 0, limit |-> 0,
   item |-> NULL, pre |-> NULL, seen |-> "none"]

NoReturn ==
  [op |-> "none", userId |-> 0, id |-> 0,
   name |-> UNDEFINED, description |-> UNDEFINED, page |-> 0, limit |-> 0,
   item |-> NULL, pre |-> NULL, seen |-> "none", res |-> NULL,
   touched |-> FALSE, stored |-> NULL]

Returned(call, res, tbl) ==
  [op |-> call.op, userId |-> call.userId, id |-> call.id,
   name |-> call.name, description |-> call.description,
   page |-> call.page, limit |-> call.limit,
   item |-> call.item, pre |-> call.pre, seen |-> call.seen, res |-> res,
   touched |-> tbl # items,
   stored |-> IF call.id \in RowIds THEN tbl[call.id] ELSE NULL]

CreateNames == {Padded(1, 1, 0), <<>>}
CreateDescs == {Padded(0, 1, 1)}
UpdateInputs ==
  { <<Padded(1, 2, 0), UNDEFINED>>, <<UNDEFINED, Padded(0, 2, 1)>>,
    <<Padded(1, 0, 0), UNDEFINED>> }

Idle(c) == calls[c].pc = "idle"

Seen(tbl, id, userId) ==
  IF tbl[id] = NULL THEN "absent"
  ELSE IF tbl[id].userId # userId THEN "foreign" ELSE "own"

Args(op, userId, id, name, description) ==
  [IdleCall EXCEPT !.op = op, !.userId = userId, !.id = id, !.name = name,
                   !.description = description,
                   !.seen = Seen(items, id, userId),
                   !.pre = RepoFindById(items, id, userId)]

(* new Date() has millisecond resolution; the clock is read, never set.    *)
Tick ==
  /\ ticks < MaxTicks
  /\ \E d \in {1, MsPerSec} : now' = now + d
  /\ ticks' = ticks + 1
  /\ UNCHANGED <<itemVars, authVars, entVars, httpVars, kernelVars>>

(* createCreateItem up to `await repository.create(item)`                  *)
CreateItemCall(c) ==
  /\ Idle(c)
  /\ nextId <= MaxItems
  /\ \E userId \in UserIds, name \in CreateNames, description \in CreateDescs :
       LET result == ItemCreate(name, description, userId, nextId, now)
           call == [IdleCall EXCEPT !.op = "create", !.userId = userId,
                                    !.name = name, !.description = description]
       IN IF ~result.ok
          THEN /\ last' = Returned(call, result, items)
               /\ UNCHANGED <<calls, nextId>>
          ELSE /\ calls' = [calls EXCEPT ![c] =
                    [call EXCEPT !.pc = "insert", !.id = nextId,
                                 !.item = result.value]]
               /\ nextId' = nextId + 1
               /\ UNCHANGED last
  /\ UNCHANGED <<now, ticks, items, creator, everActive, authVars, entVars, httpVars, kernelVars>>

CreateItemInsert(c) ==
  /\ calls[c].op = "create" /\ calls[c].pc = "insert"
  /\ items' = RepoCreate(items, calls[c].item)
  /\ creator' = [creator EXCEPT ![calls[c].id] = calls[c].userId]
  /\ last' = Returned(calls[c], ok(ItemToResponse(calls[c].item)), items')
  /\ calls' = [calls EXCEPT ![c] = IdleCall]
  /\ UNCHANGED <<now, ticks, nextId, everActive, authVars, entVars, httpVars, kernelVars>>

(* createGetItem *)
GetItem(c) ==
  /\ Idle(c)
  /\ \E userId \in UserIds, id \in ItemIds :
       LET call == Args("get", userId, id, UNDEFINED, UNDEFINED)
           item == RepoFindById(items, id, userId)
       IN last' = Returned(call,
                    IF item = NULL
                    THEN err(notFoundError(ItemNotFoundMessage(id)))
                    ELSE ok(ItemToResponse(item)),
                    items)
  /\ UNCHANGED <<now, ticks, items, nextId, creator, everActive, calls, authVars, entVars, httpVars, kernelVars>>

(* createListItems *)
ListItems(c) ==
  /\ Idle(c)
  /\ \E userId \in UserIds, page \in 1..MaxPage, limit \in 1..MaxLimit :
       \E order \in RowOrders(items, userId) :
         LET call == [IdleCall EXCEPT !.op = "list", !.userId = userId,
                        !.page = page, !.limit = limit,
                        !.pre = [owned |-> {i \in RowIds : items[i] # NULL
                                             /\ items[i].userId = userId}]]
             found == RepoFindAllByUser(items, userId, page, limit, order)
         IN last' = Returned(call,
                      ok([items |-> [k \in DOMAIN found.items |->
                                       ItemToResponse(found.items[k])],
                          total |-> found.total,
                          page |-> page, limit |-> limit]),
                      items)
  /\ UNCHANGED <<now, ticks, items, nextId, creator, everActive, calls, authVars, entVars, httpVars, kernelVars>>

ResolveRecoding(c, call, result) ==
  LET item == RepoFindById(items, call.id, call.userId) IN
  IF item = NULL
  THEN /\ last' = Returned(call,
                    err(notFoundError(ItemNotFoundMessage(call.id))), items)
       /\ UNCHANGED calls
  ELSE IF ~result.ok
  THEN /\ last' = Returned(call,
                    err([code |-> "INTERNAL_ERROR",
                         message |-> result.error.message]), items)
       /\ UNCHANGED calls
  ELSE /\ calls' = [calls EXCEPT ![c] =
            [call EXCEPT !.pc = "write", !.item = result.value]]
       /\ UNCHANGED last

(* update, activate and deactivate up to `await repository.update(...)`:   *)
(* a miss of findById is NOT_FOUND, a failed entity method is returned as  *)
(* it is, a successful one leaves the entity to be written.                *)
Resolve(c, call, result) ==
  LET item == RepoFindById(items, call.id, call.userId) IN
  IF item = NULL
  THEN /\ last' = Returned(call,
                    err(notFoundError(ItemNotFoundMessage(call.id))), items)
       /\ UNCHANGED calls
  ELSE IF ~result.ok
  THEN /\ last' = Returned(call, result, items)
       /\ UNCHANGED calls
  ELSE /\ calls' = [calls EXCEPT ![c] =
            [call EXCEPT !.pc = "write", !.item = result.value]]
       /\ UNCHANGED last

WriteIfUnchanged(c) ==
  /\ calls[c].pc = "write"
  /\ IF items[calls[c].id] # NULL
        /\ ItemFromPersistence(items[calls[c].id]) = calls[c].pre
     THEN /\ items' = RepoUpdate(items, calls[c].item)
          /\ last' = Returned(calls[c], ok(ItemToResponse(calls[c].item)),
                              items')
     ELSE /\ items' = items
          /\ last' = Returned(calls[c],
                       err(conflictError("Item was changed meanwhile")), items)
  /\ calls' = [calls EXCEPT ![c] = IdleCall]

(* `await repository.update(x); return ok(x.toResponse())`                 *)
Write(c) ==
  /\ calls[c].pc = "write"
  /\ items' = RepoUpdate(items, calls[c].item)
  /\ last' = Returned(calls[c], ok(ItemToResponse(calls[c].item)), items')
  /\ calls' = [calls EXCEPT ![c] = IdleCall]

(* createUpdateItem *)
UpdateItemCall(c) ==
  /\ Idle(c)
  /\ \E userId \in UserIds, id \in ItemIds, input \in UpdateInputs :
       LET item == RepoFindById(items, id, userId) IN
       Resolve(c, Args("update", userId, id, input[1], input[2]),
               IF item = NULL THEN NULL
               ELSE ItemUpdateDetails(item, input[1], input[2], now))
  /\ UNCHANGED <<now, ticks, items, nextId, creator, everActive, authVars, entVars, httpVars, kernelVars>>

UpdateItemWrite(c) ==
  /\ calls[c].op = "update"
  /\ Write(c)
  /\ UNCHANGED <<now, ticks, nextId, creator, everActive, authVars, entVars, httpVars, kernelVars>>

(* createActivateItem *)
ActivateItemCall(c) ==
  /\ Idle(c)
  /\ \E userId \in UserIds, id \in ItemIds :
       LET item == RepoFindById(items, id, userId) IN
       Resolve(c, Args("activate", userId, id, UNDEFINED, UNDEFINED),
               IF item = NULL THEN NULL ELSE ItemActivate(item, now))
  /\ UNCHANGED <<now, ticks, items, nextId, creator, everActive, authVars, entVars, httpVars, kernelVars>>

ActivateItemWrite(c) ==
  /\ calls[c].op = "activate"
  /\ Write(c)
  /\ everActive' = everActive \cup {calls[c].id}
  /\ UNCHANGED <<now, ticks, nextId, creator, authVars, entVars, httpVars, kernelVars>>

(* createDeactivateItem *)
DeactivateItemCall(c) ==
  /\ Idle(c)
  /\ \E userId \in UserIds, id \in ItemIds :
       LET item == RepoFindById(items, id, userId) IN
       Resolve(c, Args("deactivate", userId, id, UNDEFINED, UNDEFINED),
               IF item = NULL THEN NULL ELSE ItemDeactivate(item, now))
  /\ UNCHANGED <<now, ticks, items, nextId, creator, everActive, authVars, entVars, httpVars, kernelVars>>

DeactivateItemWrite(c) ==
  /\ calls[c].op = "deactivate"
  /\ Write(c)
  /\ UNCHANGED <<now, ticks, nextId, creator, everActive, authVars, entVars, httpVars, kernelVars>>

(* createDeleteItem over ItemsRepository.delete: a SELECT, then a DELETE.  *)
DeleteItemCall(c) ==
  /\ Idle(c)
  /\ \E userId \in UserIds, id \in ItemIds :
       LET call == Args("delete", userId, id, UNDEFINED, UNDEFINED) IN
       IF RepoDeleteSelect(items, id, userId)
       THEN /\ calls' = [calls EXCEPT ![c] = [call EXCEPT !.pc = "delete"]]
            /\ UNCHANGED last
       ELSE /\ last' = Returned(call,
                         err(notFoundError(ItemNotFoundMessage(id))), items)
            /\ UNCHANGED calls
  /\ UNCHANGED <<now, ticks, items, nextId, creator, everActive, authVars, entVars, httpVars, kernelVars>>

DeleteItemDelete(c) ==
  /\ calls[c].op = "delete" /\ calls[c].pc = "delete"
  /\ items' = RepoDeleteRow(items, calls[c].id, calls[c].userId)
  /\ last' = Returned(calls[c], ok(NULL), items')
  /\ calls' = [calls EXCEPT ![c] = IdleCall]
  /\ UNCHANGED <<now, ticks, nextId, creator, everActive, authVars, entVars, httpVars, kernelVars>>

-----------------------------------------------------------------------------
(* Use-cases run one after the other, each to its return before the next   *)
(* begins, over a table of up to MaxRows rows: the tables on which list,   *)
(* itself a single step that writes nothing, has pages to cut.             *)

SeqCreateItem ==
  /\ nextId <= MaxRows
  /\ \A c \in CallIds : Idle(c)
  /\ \E userId \in UserIds, name \in CreateNames, description \in CreateDescs :
       LET result == ItemCreate(name, description, userId, nextId, now)
           call == [IdleCall EXCEPT !.op = "create", !.userId = userId,
                                    !.name = name, !.description = description]
       IN IF ~result.ok
          THEN /\ last' = Returned(call, result, items)
               /\ UNCHANGED <<items, nextId, creator>>
          ELSE /\ items' = RepoCreate(items, result.value)
               /\ creator' = [creator EXCEPT ![nextId] = userId]
               /\ nextId' = nextId + 1
               /\ last' = Returned([call EXCEPT !.id = nextId,
                                                !.item = result.value],
                                   ok(ItemToResponse(result.value)), items')
  /\ UNCHANGED <<now, ticks, everActive, calls, authVars, entVars, httpVars, kernelVars>>

SeqDeleteItem ==
  /\ \A c \in CallIds : Idle(c)
  /\ \E userId \in UserIds, id \in RowIds :
       LET call == Args("delete", userId, id, UNDEFINED, UNDEFINED) IN
       IF RepoDeleteSelect(items, id, userId)
       THEN /\ items' = RepoDeleteRow(items, id, userId)
            /\ last' = Returned(call, ok(NULL), items')
       ELSE /\ last' = Returned(call,
                         err(notFoundError(ItemNotFoundMessage(id))), items)
            /\ UNCHANGED items
  /\ UNCHANGED <<now, ticks, nextId, creator, everActive, calls, authVars, entVars, httpVars, kernelVars>>

-----------------------------------------------------------------------------
(* The Item entity on its own: one object `ent` driven through its factory *)
(* and methods with inputs around the length limits.  `entLast` records    *)
(* the latest call: its arguments, `this` before it and the Result.        *)

EntNames ==
  { Padded(l, k, 0) : l \in 0..MaxPad, k \in {0, 1, NAME_MAX, NAME_MAX + 1} }
EntDescs ==
  { Padded(0, k, t) : k \in {0, DESC_MAX, DESC_MAX + 1}, t \in 0..MaxPad }

(* every name with one accepted description, every description with one   *)
(* accepted name, and the pair of the longest of both                      *)
EntInputs ==
  { <<name, <<>>>> : name \in EntNames }
  \cup { <<Padded(0, 1, 0), description>> : description \in EntDescs }
  \cup { <<Padded(0, NAME_MAX + 1, 0), Padded(0, DESC_MAX + 1, 0)>> }

EntUpdates ==
  EntInputs \cup { <<name, UNDEFINED>> : name \in EntNames }
            \cup { <<UNDEFINED, description>> : description \in EntDescs }
            \cup { <<UNDEFINED, UNDEFINED>> }

(* the latest activate or deactivate that succeeded on the entity in hand  *)
(* ("none" for an entity fresh from create)                                *)
EntSince ==
  IF entLast = NULL THEN "none"
  ELSE IF entLast.op \in {"activate", "deactivate"} /\ entLast.res.ok
  THEN entLast.op
  ELSE IF entLast.op = "create" /\ entLast.res.ok THEN "none"
  ELSE entLast.since

EntCall(op, name, description, res) ==
  [op |-> op, name |-> name, description |-> description,
   pre |-> ent, res |-> res, since |-> EntSince]

EntCreate ==
  /\ \E input \in EntInputs, userId \in UserIds :
       LET name == input[1]
           description == input[2]
           result == ItemCreate(name, description, userId, 1, now) IN
       /\ entLast' = [EntCall("create", name, description, result)
                        EXCEPT !.pre = [userId |-> userId]]
       /\ ent' = IF result.ok THEN result.value ELSE ent
  /\ UNCHANGED <<now, ticks, itemVars, authVars, httpVars, kernelVars>>

(* activate and deactivate change `this` itself and return it              *)
EntActivate ==
  /\ ent # NULL
  /\ LET result == ItemActivate(ent, now) IN
       /\ entLast' = EntCall("activate", UNDEFINED, UNDEFINED, result)
       /\ ent' = IF result.ok THEN result.value ELSE ent
  /\ UNCHANGED <<now, ticks, itemVars, authVars, httpVars, kernelVars>>

EntDeactivate ==
  /\ ent # NULL
  /\ LET result == ItemDeactivate(ent, now) IN
       /\ entLast' = EntCall("deactivate", UNDEFINED, UNDEFINED, result)
       /\ ent' = IF result.ok THEN result.value ELSE ent
  /\ UNCHANGED <<now, ticks, itemVars, authVars, httpVars, kernelVars>>

(* updateDetails returns a new Item, with which the caller goes on         *)
EntUpdateDetails ==
  /\ ent # NULL
  /\ \E input \in EntUpdates :
       LET name == input[1]
           description == input[2]
           result == ItemUpdateDetails(ent, name, description, now) IN
       /\ entLast' = EntCall("update", name, description, result)
       /\ ent' = IF result.ok THEN result.value ELSE ent
  /\ UNCHANGED <<now, ticks, itemVars, authVars, httpVars, kernelVars>>

(* the entity written to its row and read back by fromPersistence          *)
EntReload ==
  /\ ent # NULL
  /\ ent' = RepoFindById(RepoCreate([i \in {ent.id} |-> NULL], ent),
                         ent.id, ent.userId)
  /\ entLast' = EntCall("reload", UNDEFINED, UNDEFINED, NULL)
  /\ UNCHANGED <<now, ticks, itemVars, authVars, httpVars, kernelVars>>

-----------------------------------------------------------------------------
(* User entity, users table and auth repository                            *)

UserCreateAnyName(props) ==
  IF ~Includes(props.email, "at")
  THEN [ok |-> FALSE, error |-> validationError("Invalid email format")]
  ELSE ok(props)

UserCreate(props) ==
  IF ~Includes(props.email, "at")
  THEN [ok |-> FALSE, error |-> validationError("Invalid email format")]
  ELSE IF length(Trim(props.name)) = 0
  THEN [ok |-> FALSE, error |-> validationError("Name cannot be empty")]
  ELSE ok(props)

UserToResponseLeaking(this) ==
  [id |-> this.id, email |-> this.email, name |-> this.name,
   passwordHash |-> this.passwordHash]

UserToResponse(this) ==
  [id |-> this.id, email |-> this.email, name |-> this.name]

UserFromPersistence(row) ==
  [id |-> row.id, email |-> row.email, name |-> row.name,
   passwordHash |-> row.passwordHash,
   createdAt |-> mapFromDriverValue(row.createdAt)]

AuthFindByEmailNobody(tbl, email) == NULL

AuthFindByEmail(tbl, email) ==
  IF \E row \in tbl : row.email = email
  THEN UserFromPersistence(CHOOSE row \in tbl : row.email = email)
  ELSE NULL

(* the primary key and the unique index users_email_unique reject the row  *)
AuthInsertUnconstrained(tbl, user) == \E row \in tbl : row.id = user.id

AuthInsertRejected(tbl, user) ==
  \E row \in tbl : row.id = user.id \/ row.email = user.email

AuthCreate(tbl, user) ==
  tbl \cup {[id |-> user.id, email |-> user.email, name |-> user.name,
             passwordHash |-> user.passwordHash,
             createdAt |-> mapToDriverValue(user.createdAt)]}

(* Bun.password.hash salts the password; Bun.password.verify tells whether *)
(* a hash was made from the password.  sign carries the two claims.        *)
PasswordHash(password, salt) == [password |-> password, salt |-> salt]
PasswordVerifyRehash(password, hash) == hash = PasswordHash(password, 0)
PasswordVerify(password, hash) == hash.password = password
sign(userId, email) == [userId |-> userId, email |-> email]

-----------------------------------------------------------------------------
(* Auth use-cases.  `authLast` is the record of the register or login that *)
(* returned (or threw) most recently; `after` tells that the call began    *)
(* when a register for its email had already returned ok (`registered`),   *)
(* `touched` that it changed the users table;                              *)
(* `loginFailures` keeps the latest failure of each failing branch of      *)
(* login.                                                                  *)

Emails ==
  { <<Run("ch", k), Run("at", 1), Run("ch", 1)>> : k \in 1..MaxEmails }
  \cup { <<Run("ch", 1)>> }
Passwords == 1..MaxPasswords
UserNames == {Padded(0, 1, 0), Padded(1, 0, 0)}

AuthIdle ==
  [op |-> "none", pc |-> "idle", email |-> <<>>, password |-> 0,
   name |-> <<>>, after |-> FALSE, user |-> NULL, touched |-> FALSE]

AuthNoReturn ==
  [op |-> "none", email |-> <<>>, password |-> 0, name |-> <<>>,
   after |-> FALSE, user |-> NULL, touched |-> FALSE, res |-> NULL]

AuthReturned(call, res) ==
  [op |-> call.op, email |-> call.email, password |-> call.password,
   name |-> call.name, after |-> call.after, user |-> call.user,
   touched |-> call.touched, res |-> res]

RegisterConflictError == conflictError("A user with this email already exists")

LoginNoUserError == unauthorizedError("Invalid email or password")

LoginBadPasswordErrorTelling == unauthorizedError("Wrong password")

LoginBadPasswordError == unauthorizedError("Invalid email or password")

Thrown == [thrown |-> "UNIQUE constraint failed"]

(* register up to `await Bun.password.hash(...)`                           *)
RegisterCall(c) ==
  /\ authCalls[c].pc = "idle"
  /\ \E email \in Emails, password \in Passwords, name \in UserNames :
       LET call == [AuthIdle EXCEPT !.op = "register", !.email = email,
                      !.password = password, !.name = name,
                      !.after = email \in registered]
       IN IF AuthFindByEmail(users, email) # NULL
          THEN /\ authLast' = AuthReturned(call, err(RegisterConflictError))
               /\ UNCHANGED authCalls
          ELSE /\ authCalls' = [authCalls EXCEPT ![c] =
                                  [call EXCEPT !.pc = "hash"]]
               /\ UNCHANGED authLast
  /\ UNCHANGED <<now, ticks, users, nextUserId, registered, loginFailures,
                 itemVars, entVars, httpVars, kernelVars>>

(* from the hash to `await repository.create(user)`                        *)
RegisterHash(c) ==
  /\ authCalls[c].op = "register" /\ authCalls[c].pc = "hash"
  /\ nextUserId <= MaxUsers
  /\ \E salt \in 1..MaxSalt :
       LET call == authCalls[c]
           result == UserCreate([id |-> nextUserId, email |-> call.email,
                       name |-> call.name,
                       passwordHash |-> PasswordHash(call.password, salt),
                       createdAt |-> now])
       IN IF ~result.ok
          THEN /\ authLast' = AuthReturned(call, result)
               /\ authCalls' = [authCalls EXCEPT ![c] = AuthIdle]
          ELSE /\ authCalls' = [authCalls EXCEPT ![c].pc = "insert",
                                                 ![c].user = result.value]
               /\ UNCHANGED authLast
  /\ nextUserId' = nextUserId + 1
  /\ UNCHANGED <<now, ticks, users, registered, loginFailures,
                 itemVars, entVars, httpVars, kernelVars>>

RegisterInsertSwallowing(c) ==
  /\ authCalls[c].op = "register" /\ authCalls[c].pc = "insert"
  /\ users' = IF AuthInsertRejected(users, authCalls[c].user) THEN users
              ELSE AuthCreate(users, authCalls[c].user)
  /\ authCalls' = [authCalls EXCEPT ![c].pc = "sign",
                                    ![c].touched = users' # users]
  /\ UNCHANGED <<now, ticks, nextUserId, registered, loginFailures, authLast,
                 itemVars, entVars, httpVars, kernelVars>>

RegisterInsertConflict(c) ==
  /\ authCalls[c].op = "register" /\ authCalls[c].pc = "insert"
  /\ IF AuthInsertRejected(users, authCalls[c].user)
     THEN /\ authLast' = AuthReturned(authCalls[c], err(RegisterConflictError))
          /\ authCalls' = [authCalls EXCEPT ![c] = AuthIdle]
          /\ UNCHANGED users
     ELSE /\ users' = AuthCreate(users, authCalls[c].user)
          /\ authCalls' = [authCalls EXCEPT ![c].pc = "sign",
                                            ![c].touched = users' # users]
          /\ UNCHANGED authLast
  /\ UNCHANGED <<now, ticks, nextUserId, registered, loginFailures,
                 itemVars, entVars, httpVars, kernelVars>>

(* the INSERT: a rejected row makes repository.create throw                *)
RegisterInsert(c) ==
  /\ authCalls[c].op = "register" /\ authCalls[c].pc = "insert"
  /\ IF AuthInsertRejected(users, authCalls[c].user)
     THEN /\ authLast' = AuthReturned(authCalls[c], Thrown)
          /\ authCalls' = [authCalls EXCEPT ![c] = AuthIdle]
          /\ UNCHANGED users
     ELSE /\ users' = AuthCreate(users, authCalls[c].user)
          /\ authCalls' = [authCalls EXCEPT ![c].pc = "sign",
                                            ![c].touched = users' # users]
          /\ UNCHANGED authLast
  /\ UNCHANGED <<now, ticks, nextUserId, registered, loginFailures,
                 itemVars, entVars, httpVars, kernelVars>>

(* generateToken and the return                                            *)
RegisterSign(c) ==
  /\ authCalls[c].op = "register" /\ authCalls[c].pc = "sign"
  /\ LET user == authCalls[c].user IN
       authLast' = AuthReturned(authCalls[c],
                     ok([token |-> sign(user.id, user.email),
                         user |-> UserToResponse(user)]))
  /\ registered' = registered \cup {authCalls[c].email}
  /\ authCalls' = [authCalls EXCEPT ![c] = AuthIdle]
  /\ UNCHANGED <<now, ticks, users, nextUserId, loginFailures,
                 itemVars, entVars, httpVars, kernelVars>>

(* createLogin (and AuthService.login, which is the same code) up to       *)
(* `await Bun.password.verify(...)`                                        *)
LoginCall(c) ==
  /\ authCalls[c].pc = "idle"
  /\ \E email \in Emails, password \in Passwords :
       LET call == [AuthIdle EXCEPT !.op = "login", !.email = email,
                      !.password = password, !.after = email \in registered]
           user == AuthFindByEmail(users, email)
       IN IF user = NULL
          THEN /\ authLast' = AuthReturned(call, err(LoginNoUserError))
               /\ loginFailures' =
                    [loginFailures EXCEPT !.noUser = err(LoginNoUserError)]
               /\ UNCHANGED authCalls
          ELSE /\ authCalls' = [authCalls EXCEPT ![c] =
                    [call EXCEPT !.pc = "verify", !.user = user]]
               /\ UNCHANGED <<authLast, loginFailures>>
  /\ UNCHANGED <<now, ticks, users, nextUserId, registered,
                 itemVars, entVars, httpVars, kernelVars>>

LoginVerify(c) ==
  /\ authCalls[c].op = "login" /\ authCalls[c].pc = "verify"
  /\ LET call == authCalls[c]
         user == call.user
         valid == PasswordVerify(call.password, user.passwordHash)
     IN IF ~valid
        THEN /\ authLast' = AuthReturned(call, err(LoginBadPasswordError))
             /\ loginFailures' = [loginFailures EXCEPT
                                    !.badPassword = err(LoginBadPasswordError)]
        ELSE /\ authLast' = AuthReturned(call,
                              ok([token |-> sign(user.id, user.email),
                                  user |-> UserToResponse(user)]))
             /\ UNCHANGED loginFailures
  /\ authCalls' = [authCalls EXCEPT ![c] = AuthIdle]
  /\ UNCHANGED <<now, ticks, users, nextUserId, registered,
                 itemVars, entVars, httpVars, kernelVars>>

-----------------------------------------------------------------------------
(* The HTTP boundary: the middleware stack of createApp around the route   *)
(* handlers.  A handler or middleware either produces a response or        *)
(* throws; a throw passes through every `await next()` above it up to the  *)
(* first enclosing catch.  `http` is the latest exchange: the request, the *)
(* outcome of the use-case it reached (if any) and the response.           *)

internalError(message) == [code |-> "INTERNAL_ERROR", message |-> message]

ErrorCodes ==
  {"VALIDATION_ERROR", "NOT_FOUND", "UNAUTHORIZED", "CONFLICT",
   "INTERNAL_ERROR"}

STATUS_MAP_Swapped ==
  [code \in ErrorCodes |->
     CASE code = "VALIDATION_ERROR" -> 400
       [] code = "UNAUTHORIZED" -> 401
       [] code = "NOT_FOUND" -> 409
       [] code = "CONFLICT" -> 404
       [] code = "INTERNAL_ERROR" -> 500]

STATUS_MAP ==
  [code \in ErrorCodes |->
     CASE code = "VALIDATION_ERROR" -> 400
       [] code = "UNAUTHORIZED" -> 401
       [] code = "NOT_FOUND" -> 404
       [] code = "CONFLICT" -> 409
       [] code = "INTERNAL_ERROR" -> 500]

errorToStatus(code) ==
  IF code \in DOMAIN STATUS_MAP THEN STATUS_MAP[code] ELSE 500

json(body, status) == [status |-> status, body |-> body]

Fault == [thrown |-> "repository call failed"]
IsThrown(x) == "thrown" \in DOMAIN x

ItemRoutes ==
  {"list", "get", "create", "update", "activate", "deactivate", "delete"}
AuthRoutes == {"register", "login"}
BodyRoutes == {"create", "update", "register", "login"}

(* the status of c.json(result.value[, status]) and c.body(null, 204)      *)
SuccessStatus(route) ==
  IF route \in {"create", "register"} THEN 201
  ELSE IF route = "delete" THEN 204 ELSE 200

(* a route handler: the body is read and parsed, the use-case awaited and  *)
(* its Result turned into the response.  body is "malformed" (c.req.json   *)
(* throws), "invalid" (safeParse fails) or "valid"; outcome is what the    *)
(* use-case returns or throws.                                             *)
Handler(route, body, outcome) ==
  IF route \in BodyRoutes /\ body = "malformed" THEN Fault
  ELSE IF route \in BodyRoutes /\ body = "invalid"
  THEN json(validationError("issues[0].message"), 400)
  ELSE IF IsThrown(outcome) THEN outcome
  ELSE IF ~outcome.ok
  THEN json(outcome.error, errorToStatus(outcome.error.code))
  ELSE IF route = "delete" THEN json(NULL, SuccessStatus(route))
  ELSE json(outcome.value, SuccessStatus(route))

(* whether the handler gets as far as calling its use-case                 *)
Invokes(route, body) == route \in BodyRoutes => body = "valid"

JwtGuardUnverified(header, downstream) ==
  IF header.kind # "bearer"
  THEN json(unauthorizedError("Missing or invalid token"), 401)
  ELSE IF IsThrown(downstream)
  THEN json(unauthorizedError("Invalid or expired token"), 401)
  ELSE downstream

(* jwtGuard: `await next()` stands inside the try whose catch answers 401, *)
(* so a throw from below is caught there as a failed verification is.      *)
JwtGuard(header, downstream) ==
  IF header.kind # "bearer"
  THEN json(unauthorizedError("Missing or invalid token"), 401)
  ELSE IF ~header.verifies
  THEN json(unauthorizedError("Invalid or expired token"), 401)
  ELSE IF IsThrown(downstream)
  THEN json(unauthorizedError("Invalid or expired token"), 401)
  ELSE downstream

(* errorHandler: try { await next() } catch { 500 INTERNAL_ERROR }         *)
ErrorHandler(downstream) ==
  IF IsThrown(downstream)
  THEN json(internalError("Internal server error"), 500)
  ELSE downstream

(* whether jwtGuard lets the request through to the route handler: the    *)
(* handler runs exactly when the guard awaits next()                       *)
GuardPasses(header) ==
  JwtGuard(header, json(NULL, 200)) = json(NULL, 200)

(* `const { userId } = c.get('jwtPayload')`: the payload the guard set     *)
JwtPayloadUserId(header) == header.userId

(* no header, another scheme, and Bearer tokens: ones that do not verify   *)
(* (garbage, or a payload naming a user under a wrong signature) and ones  *)
(* that do                                                                 *)
Headers ==
  {[kind |-> "none", verifies |-> FALSE, userId |-> 0],
   [kind |-> "basic", verifies |-> FALSE, userId |-> 0],
   [kind |-> "bearer", verifies |-> FALSE, userId |-> 0]}
  \cup {[kind |-> "bearer", verifies |-> FALSE, userId |-> u] : u \in UserIds}
  \cup {[kind |-> "bearer", verifies |-> TRUE, userId |-> u] : u \in UserIds}

Bodies == {"malformed", "invalid", "valid"}

SampleItem(userId) ==
  ItemCreate(Padded(0, 1, 0), <<>>, userId, 1, 0).value

SampleUser ==
  [id |-> 1, email |-> <<Run("ch", 1), Run("at", 1), Run("ch", 1)>>,
   name |-> Padded(0, 1, 0), passwordHash |-> PasswordHash(1, 1),
   createdAt |-> 0]

ItemNotFound == err(notFoundError(ItemNotFoundMessage(1)))

(* what the use-case behind a route can return or throw                    *)
Outcomes(route, userId) ==
  {Fault} \cup
  CASE route = "list" ->
         {ok([items |-> <<ItemToResponse(SampleItem(userId))>>, total |-> 1,
              page |-> 1, limit |-> 1])}
    [] route = "get" ->
         {ok(ItemToResponse(SampleItem(userId))), ItemNotFound}
    [] route = "create" ->
         {ok(ItemToResponse(SampleItem(userId))),
          ItemCreate(<<>>, <<>>, userId, 1, 0)}
    [] route = "update" ->
         {ok(ItemToResponse(SampleItem(userId))), ItemNotFound,
          ItemUpdateDetails(SampleItem(userId), Padded(1, 0, 0),
                            UNDEFINED, 0)}
    [] route = "activate" ->
         {ItemActivate(SampleItem(userId), 0), ItemNotFound,
          ItemActivate(ItemActivate(SampleItem(userId), 0).value, 0)}
    [] route = "deactivate" ->
         {ItemDeactivate(ItemActivate(SampleItem(userId), 0).value, 0),
          ItemNotFound, ItemDeactivate(SampleItem(userId), 0)}
    [] route = "delete" -> {ok(NULL), ItemNotFound}
    [] route = "register" ->
         {ok([token |-> sign(SampleUser.id, SampleUser.email),
              user |-> UserToResponse(SampleUser)]),
          err(RegisterConflictError),
          UserCreate([SampleUser EXCEPT !.name = <<>>]), Thrown}
    [] route = "login" ->
         {ok([token |-> sign(SampleUser.id, SampleUser.email),
              user |-> UserToResponse(SampleUser)]),
          err(LoginNoUserError), err(LoginBadPasswordError)}

(* userId is the one the use-case was called with (0 when none was called) *)
Exchange(route, header, body, userId, outcome, response) ==
  [route |-> route, header |-> header, body |-> body, userId |-> userId,
   outcome |-> outcome, response |-> response]

(* a request to /api/items/...: errorHandler, jwtGuard, the handler        *)
ItemsRequest ==
  /\ \E route \in ItemRoutes, header \in Headers, body \in Bodies :
       \E outcome \in Outcomes(route, JwtPayloadUserId(header)) :
         http' = Exchange(route, header, body,
                   IF GuardPasses(header) /\ Invokes(route, body)
                   THEN JwtPayloadUserId(header) ELSE 0,
                   IF GuardPasses(header) /\ Invokes(route, body)
                   THEN outcome ELSE NULL,
                   ErrorHandler(JwtGuard(header,
                                         Handler(route, body, outcome))))
  /\ UNCHANGED <<now, ticks, itemVars, authVars, entVars, kernelVars>>

(* a request to /api/auth/...: errorHandler, the handler                   *)
AuthRequest ==
  /\ \E route \in AuthRoutes, body \in Bodies :
       \E outcome \in Outcomes(route, 0) :
         http' = Exchange(route, [kind |-> "none", verifies |-> FALSE,
                                  userId |-> 0], body, 0,
                   IF Invokes(route, body) THEN outcome ELSE NULL,
                   ErrorHandler(Handler(route, body, outcome)))
  /\ UNCHANGED <<now, ticks, itemVars, authVars, entVars, kernelVars>>

-----------------------------------------------------------------------------
(* The Result kernel on its own: map, isOk and isErr applied to Results.   *)
(* `kernel` is the latest application.                                     *)

Values == 0..MaxValue

Results ==
  {ok(v) : v \in Values}
  \cup {err([code |-> code, message |-> message]) :
          code \in ErrorCodes, message \in {"", "Item is already active"}}

Fns ==
  {[v \in Values |-> v + 1], [v \in Values |-> 2 * v],
   [v \in Values |-> 0], [v \in Values |-> v],
   [v \in Values |-> v * v], [v \in Values |-> MaxValue - v]}

MapResult ==
  /\ \E result \in Results, fn \in Fns :
       kernel' = [result |-> result, fn |-> fn, mapped |-> map(result, fn),
                  isOk |-> isOk(result), isErr |-> isErr(result)]
  /\ UNCHANGED <<now, ticks, itemVars, authVars, entVars, httpVars>>

-----------------------------------------------------------------------------

Init ==
  /\ now = 0 /\ ticks = 0
  /\ items = [i \in RowIds |-> NULL]
  /\ nextId = 1
  /\ creator = [i \in RowIds |-> 0]
  /\ everActive = {}
  /\ calls = [c \in CallIds |-> IdleCall]
  /\ last = NoReturn
  /\ users = {}
  /\ nextUserId = 1
  /\ registered = {}
  /\ authCalls = [c \in CallIds |-> AuthIdle]
  /\ authLast = AuthNoReturn
  /\ loginFailures = [noUser |-> NULL, badPassword |-> NULL]
  /\ ent = NULL /\ entLast = NULL
  /\ http = NULL
  /\ kernel = NULL

Next ==
  \/ Tick
  \/ \E c \in CallIds : CreateItemCall(c)
  \/ \E c \in CallIds : CreateItemInsert(c)
  \/ \E c \in CallIds : GetItem(c)
  \/ \E c \in CallIds : UpdateItemCall(c)
  \/ \E c \in CallIds : UpdateItemWrite(c)
  \/ \E c \in CallIds : ActivateItemCall(c)
  \/ \E c \in CallIds : ActivateItemWrite(c)
  \/ \E c \in CallIds : DeactivateItemCall(c)
  \/ \E c \in CallIds : DeactivateItemWrite(c)
  \/ \E c \in CallIds : DeleteItemCall(c)
  \/ \E c \in CallIds : DeleteItemDelete(c)

Spec == Init /\ [][Next]_vars

ListNext ==
  \/ SeqCreateItem
  \/ SeqDeleteItem
  \/ ListItems(1)

ListSpec == Init /\ [][ListNext]_vars

(* The use-cases that call an entity factory or transition, item and auth  *)
(* alike, one request at a time: a use-case begins when none is in flight. *)
Quiet == calls[1].pc = "idle" /\ authCalls[1].pc = "idle"

SerialNext ==
  \/ Quiet /\ CreateItemCall(1)
  \/ CreateItemInsert(1)
  \/ Quiet /\ UpdateItemCall(1)
  \/ UpdateItemWrite(1)
  \/ Quiet /\ ActivateItemCall(1)
  \/ ActivateItemWrite(1)
  \/ Quiet /\ DeactivateItemCall(1)
  \/ DeactivateItemWrite(1)
  \/ Quiet /\ RegisterCall(1)
  \/ RegisterHash(1)
  \/ RegisterInsert(1)
  \/ RegisterSign(1)

SerialSpec == Init /\ [][SerialNext]_vars

KernelNext == MapResult

KernelSpec == Init /\ [][KernelNext]_vars

HttpNext ==
  \/ ItemsRequest
  \/ AuthRequest

HttpSpec == Init /\ [][HttpNext]_vars

AuthNext ==
  \/ \E c \in CallIds : RegisterCall(c)
  \/ \E c \in CallIds : RegisterHash(c)
  \/ \E c \in CallIds : RegisterInsert(c)
  \/ \E c \in CallIds : RegisterSign(c)
  \/ \E c \in CallIds : LoginCall(c)
  \/ \E c \in CallIds : LoginVerify(c)

AuthSpec == Init /\ [][AuthNext]_vars

EntityNext ==
  \/ Tick
  \/ EntCreate
  \/ EntActivate
  \/ EntDeactivate
  \/ EntUpdateDetails
  \/ EntReload

EntitySpec == Init /\ [][EntityNext]_vars

-----------------------------------------------------------------------------
(* Properties of the item use-cases (Spec)                                 *)

SingleOps == {"get", "update", "activate", "deactivate", "delete"}

NotFoundResult(id) == err(notFoundError(ItemNotFoundMessage(id)))

(* the id of record r names an item that a user other than r's created    *)
OfOtherUser(r, by) ==
  r.op \in SingleOps /\ by[r.id] # 0 /\ by[r.id] # r.userId

(* C1: a get, update, activate, deactivate or delete called by user B with *)
(* the id of an item created by another user A returns NOT_FOUND (never    *)
(* UNAUTHORIZED) without having changed the items table, and no such call  *)
(* is ever past its lookup, waiting to write or delete.                    *)
C1_OtherUserNotFound ==
  /\ OfOtherUser(last, creator)
       => /\ ~last.res.ok
          /\ last.res.error.code = "NOT_FOUND"
          /\ ~last.touched
  /\ \A c \in CallIds : ~OfOtherUser(calls[c], creator)

C1_Witness ==
  /\ last.op = "update" /\ last.seen = "foreign"
  /\ items[last.id] # NULL /\ creator[last.id] # last.userId
  /\ ~last.res.ok /\ ~last.touched

(* C3: for each single-item operation the result returned when the id      *)
(* names an item of another user and the result returned when no item has  *)
(* that id are one and the same value, NOT_FOUND with a message that       *)
(* depends on the id alone.                                                *)
C3_ForeignLikeAbsent ==
  (last.op \in SingleOps /\ last.seen \in {"absent", "foreign"})
    => last.res = NotFoundResult(last.id)

C3_Witness ==
  last.op = "delete" /\ last.seen = "foreign" /\ items[last.id] # NULL

(* C5: activate on an inactive item returns ok with status active and     *)
(* writes status active; activate on an active item returns                *)
(* VALIDATION_ERROR, leaves the entity as it was read (status active, same *)
(* updatedAt) and writes nothing.                                          *)
C5_ActivateNotIdempotent ==
  (last.op = "activate" /\ last.pre # NULL)
    => IF last.pre.status = "inactive"
       THEN /\ last.res.ok
            /\ last.res.value.status = "active"
            /\ last.item.status = "active"
            /\ last.stored # NULL => last.stored.status = "active"
       ELSE /\ last.res = err(validationError("Item is already active"))
            /\ last.item = NULL
            /\ ~last.touched
            /\ last.stored # NULL => ItemFromPersistence(last.stored) = last.pre

C5_Witness ==
  /\ last.op = "activate" /\ last.pre # NULL
  /\ last.pre.status = "active" /\ ~last.res.ok
  /\ items[last.id] # NULL /\ items[last.id].status = "active"

(* C6: deactivate on an active item returns ok with status inactive and   *)
(* writes status inactive; deactivate on an inactive item, one that was    *)
(* never activated included, returns VALIDATION_ERROR, leaves status and   *)
(* updatedAt as they were read and writes nothing.                         *)
C6_DeactivateNotIdempotent ==
  (last.op = "deactivate" /\ last.pre # NULL)
    => IF last.pre.status = "active"
       THEN /\ last.res.ok
            /\ last.res.value.status = "inactive"
            /\ last.item.status = "inactive"
            /\ last.stored # NULL => last.stored.status = "inactive"
       ELSE /\ last.res = err(validationError("Item is already inactive"))
            /\ last.item = NULL
            /\ ~last.touched
            /\ last.stored # NULL => ItemFromPersistence(last.stored) = last.pre

C6_Witness ==
  /\ last.op = "deactivate" /\ last.pre # NULL
  /\ last.pre.status = "inactive" /\ ~last.res.ok
  /\ last.id \notin everActive
  /\ items[last.id] # NULL /\ items[last.id].status = "inactive"

(* C9: the write of an update call never changes the stored status of the  *)
(* item, whatever ran between its read and its write.                      *)
C9_UpdateKeepsStatus ==
  [][ \A c \in CallIds :
        (calls[c].op = "update" /\ calls[c].pc = "write"
           /\ calls'[c] # calls[c]
           /\ items[calls[c].id] # NULL /\ items'[calls[c].id] # NULL)
          => items'[calls[c].id].status = items[calls[c].id].status ]_vars

(* C11: as long as an item is stored its id, userId and createdAt are      *)
(* those it was created with, whichever update, activate or deactivate     *)
(* calls of whichever users are applied to it.                             *)
C11_IdentityImmutable ==
  [][ \A i \in RowIds :
        (items[i] # NULL /\ items'[i] # NULL)
          => /\ items'[i].id = items[i].id
             /\ items'[i].userId = items[i].userId
             /\ items'[i].createdAt = items[i].createdAt ]_vars

C11_Witness ==
  /\ last.op \in {"update", "activate", "deactivate"}
  /\ last.res.ok /\ last.touched
  /\ last.stored # NULL
  /\ last.stored.updatedAt > last.stored.createdAt
  /\ last.stored.userId = creator[last.id]

(* what a returned delete and a returned get tell about the table          *)
DeleteReturns ==
  /\ last.op = "delete"
       => /\ last.res.ok <=> last.seen = "own"
          /\ last.res.ok => last.res = ok(NULL) /\ last.stored = NULL
          /\ ~last.res.ok
               => last.res = NotFoundResult(last.id) /\ ~last.touched
  /\ (last.op = "get" /\ last.res.ok)
       => last.stored # NULL /\ last.stored.userId = last.userId

(* C12: delete(id, userId) returns ok exactly when its lookup finds a row   *)
(* with that id and that owner; when it returns ok the row is gone, it     *)
(* never comes back and get does not return it; when nothing matches it    *)
(* returns NOT_FOUND and the table is as it was.                           *)
C12_DeleteExactlyOwn ==
  /\ []DeleteReturns
  /\ [][ \A i \in ItemIds :
           (creator[i] # 0 /\ items[i] = NULL) => items'[i] = NULL ]_vars

C12_Witness ==
  /\ last.op = "get" /\ last.userId = creator[last.id]
  /\ items[last.id] = NULL
  /\ last.res = NotFoundResult(last.id)

(* C18: the item of a successful create has status inactive, createdAt    *)
(* equal to updatedAt, the userId of the caller and the trimmed name and   *)
(* description; the use-case returns its projection and stores it, both    *)
(* dates as the same whole second; and a get by the owner returns what is  *)
(* stored under the id: the projection of the row.                         *)
C18_CreatedItem ==
  /\ (last.op = "create" /\ last.res.ok)
       => /\ last.item.status = "inactive"
          /\ last.item.createdAt = last.item.updatedAt
          /\ last.item.userId = last.userId
          /\ last.item.name = Trim(last.name)
          /\ last.item.description = Trim(last.description)
          /\ last.res.value = ItemToResponse(last.item)
          /\ last.stored # NULL
          /\ last.stored.id = last.item.id
          /\ last.stored.name = Trim(last.name)
          /\ last.stored.description = Trim(last.description)
          /\ last.stored.status = "inactive"
          /\ last.stored.userId = last.userId
          /\ last.stored.createdAt = last.stored.updatedAt
          /\ last.stored.createdAt = last.item.createdAt \div MsPerSec
  /\ (last.op = "create" /\ ~last.res.ok) => ~last.touched
  /\ (last.op = "get" /\ last.stored # NULL
        /\ creator[last.id] = last.userId)
       => /\ last.res.ok
          /\ last.res.value.id = last.stored.id
          /\ last.res.value.name = last.stored.name
          /\ last.res.value.description = last.stored.description
          /\ last.res.value.status = last.stored.status
          /\ last.res.value.createdAt
               = toISOString(last.stored.createdAt * MsPerSec)

C18_Witness ==
  /\ last.op = "get" /\ last.res.ok /\ creator[last.id] = last.userId
  /\ last.res.value.status = "inactive"
  /\ last.res.value.name = Trim(Padded(1, 1, 0))
  /\ last.res.value.createdAt = last.res.value.updatedAt
  /\ now > 0

(* C21: two activate calls on one inactive item can both read it as        *)
(* inactive and both be about to write; each call that read inactive       *)
(* returns ok with status active, and when its write completes the stored  *)
(* status and updatedAt are the ones it wrote, whatever was written        *)
(* before: the call whose update runs last decides the stored updatedAt.   *)
C21_BothActivationsSucceed ==
  /\ \A c \in CallIds :
       (calls[c].op = "activate" /\ calls[c].pc = "write")
         => calls[c].pre.status = "inactive" /\ calls[c].item.status = "active"
  /\ (last.op = "activate" /\ last.pre # NULL /\ last.pre.status = "inactive")
       => /\ last.res.ok
          /\ last.res.value.status = "active"
          /\ last.res.value.updatedAt = toISOString(last.item.updatedAt)
          /\ last.stored # NULL
               => /\ last.stored.status = "active"
                  /\ last.stored.updatedAt
                       = mapToDriverValue(last.item.updatedAt)

(* both calls have read the item as inactive, at different times, and both *)
(* are about to write                                                      *)
C21_Witness ==
  /\ \A c \in {1, 2} :
       /\ calls[c].op = "activate" /\ calls[c].pc = "write"
       /\ calls[c].pre.status = "inactive"
  /\ calls[1].id = calls[2].id /\ calls[1].userId = calls[2].userId
  /\ calls[1].item.updatedAt > calls[2].item.updatedAt + 1
  /\ items[calls[1].id] # NULL /\ items[calls[1].id].status = "inactive"

(* C28: concurrent updates of one item, one giving only a name and the     *)
(* other only a description, both take effect: the write of an update      *)
(* that gave no description leaves the stored description as it is, and    *)
(* the write of one that gave no name leaves the stored name as it is, so  *)
(* that after both returned ok the row has the new name and the new        *)
(* description.                                                            *)
C28_BothUpdatesTakeEffect ==
  [][\A c \in CallIds :
       (/\ calls[c].op = "update" /\ calls[c].pc = "write"
        /\ calls'[c].pc = "idle"
        /\ items[calls[c].id] # NULL /\ items'[calls[c].id] # NULL)
         => /\ calls[c].description = UNDEFINED
                 => items'[calls[c].id].description
                      = items[calls[c].id].description
            /\ calls[c].name = UNDEFINED
                 => items'[calls[c].id].name = items[calls[c].id].name]_vars

(* C29: for one stored item at most one delete call returns ok, also when  *)
(* two deletes of the owner overlap: a delete that returns ok is the one   *)
(* that removed the row (a row once removed never returns, so there is at  *)
(* most one such call per item), every other delete returns NOT_FOUND.     *)
C29_OneDeleteReturnsOk ==
  (last.op = "delete" /\ last.res.ok) => last.touched

(* C30: when update, activate or deactivate returns ok with an item, the   *)
(* table holds that item with the returned name, description and status    *)
(* as the call's write completes; so none of them returns ok for an item   *)
(* that a delete has removed meanwhile.                                    *)
C30_OkMeansStored ==
  (last.op \in {"update", "activate", "deactivate"} /\ last.res.ok)
    => /\ last.stored # NULL
       /\ last.stored.name = last.res.value.name
       /\ last.stored.description = last.res.value.description
       /\ last.stored.status = last.res.value.status

-----------------------------------------------------------------------------
(* Properties of the use-cases over the entities (SerialSpec)              *)

(* what the entity factory or transition of a returned item call answers   *)
(* to the call's arguments; whether it fails depends on neither id nor     *)
(* clock                                                                   *)
ItemEntityResult(r) ==
  IF r.op = "create"
  THEN ItemCreate(r.name, r.description, r.userId, 0, 0)
  ELSE IF r.pre = NULL THEN ok(NULL)
  ELSE IF r.op = "update"
  THEN ItemUpdateDetails(r.pre, r.name, r.description, 0)
  ELSE IF r.op = "activate" THEN ItemActivate(r.pre, 0)
  ELSE IF r.op = "deactivate" THEN ItemDeactivate(r.pre, 0)
  ELSE ok(NULL)

UserEntityResult(r) ==
  UserCreate([id |-> 0, email |-> r.email, name |-> r.name,
              passwordHash |-> NULL, createdAt |-> 0])

(* C14: when Item.create, updateDetails, activate, deactivate or           *)
(* User.create fails inside a use-case, the use-case returns that very     *)
(* error, code and message, writes nothing to its table and issues no      *)
(* token; no row is ever stored that its factory would refuse.             *)
C14_EntityFailurePropagates ==
  /\ (last.op \in {"create", "update", "activate", "deactivate"}
        /\ ~ItemEntityResult(last).ok)
       => /\ last.res = ItemEntityResult(last)
          /\ ~last.touched /\ last.item = NULL
  /\ (authLast.op = "register" /\ ~UserEntityResult(authLast).ok
        /\ authLast.res # err(RegisterConflictError))
       => /\ authLast.res = UserEntityResult(authLast)
          /\ ~authLast.touched /\ authLast.user = NULL
  /\ \A u \in users : UserEntityResult(u).ok
  /\ authCalls[1].pc \in {"insert", "sign"}
       => UserEntityResult(authCalls[1]).ok
  /\ calls[1].pc \in {"insert", "write"} => ItemEntityResult(calls[1]).ok

C14_Witness ==
  /\ last.op = "update" /\ last.pre # NULL /\ ~last.res.ok
  /\ last.res.error.code = "VALIDATION_ERROR"
  /\ authLast.op = "register" /\ ~authLast.res.ok
  /\ authLast.res.error = validationError("Name cannot be empty")


-----------------------------------------------------------------------------
(* Properties of the HTTP boundary (HttpSpec)                              *)

(* C15: when the use-case of a request throws (a repository call failed),  *)
(* an item request with a verified token included, the response is status  *)
(* 500 with body {code: INTERNAL_ERROR, message: 'Internal server error'}. *)
C15_ThrowIsInternalError ==
  (http # NULL /\ http.outcome # NULL /\ IsThrown(http.outcome))
    => http.response = json(internalError("Internal server error"), 500)

(* the table of the claim                                                  *)
StatusOfCode(code) ==
  CASE code = "VALIDATION_ERROR" -> 400
    [] code = "UNAUTHORIZED" -> 401
    [] code = "NOT_FOUND" -> 404
    [] code = "CONFLICT" -> 409
    [] code = "INTERNAL_ERROR" -> 500

(* C19: errorToStatus maps VALIDATION_ERROR to 400, UNAUTHORIZED to 401,   *)
(* NOT_FOUND to 404, CONFLICT to 409 and INTERNAL_ERROR to 500; and when   *)
(* the use-case of a request returns a failure, the response has the       *)
(* status of the failure's code and the failure's {code, message} as body. *)
C19_FailureStatus ==
  /\ \A code \in ErrorCodes : errorToStatus(code) = StatusOfCode(code)
  /\ (http # NULL /\ http.outcome # NULL /\ ~IsThrown(http.outcome)
        /\ ~http.outcome.ok)
       => /\ http.response.status = StatusOfCode(http.outcome.error.code)
          /\ http.response.body = http.outcome.error
          /\ DOMAIN http.response.body = {"code", "message"}

C19_Witness ==
  /\ http # NULL /\ http.route = "get" /\ http.header.verifies
  /\ http.outcome = ItemNotFound
  /\ http.response = json(notFoundError(ItemNotFoundMessage(1)), 404)

(* C26: a request to an item route without an Authorization header that   *)
(* starts with 'Bearer ', or with a token that fails verification, is      *)
(* answered 401 with code UNAUTHORIZED and no item use-case is called; and *)
(* whenever an item use-case is called, the token verified and the userId  *)
(* passed to the use-case is the one in its payload.                       *)
C26_GuardedItemRoutes ==
  (http # NULL /\ http.route \in ItemRoutes)
    => /\ ~(http.header.kind = "bearer" /\ http.header.verifies)
            => /\ http.response.status = 401
               /\ http.response.body.code = "UNAUTHORIZED"
               /\ http.outcome = NULL /\ http.userId = 0
       /\ http.outcome # NULL
            => /\ http.header.kind = "bearer" /\ http.header.verifies
               /\ http.userId = http.header.userId

(* a well-formed delete request whose Bearer token names a user but does   *)
(* not verify                                                              *)
C26_Witness ==
  /\ http # NULL /\ http.route = "delete" /\ http.body = "valid"
  /\ http.header.kind = "bearer" /\ ~http.header.verifies
  /\ http.header.userId \in UserIds
  /\ http.response = json(unauthorizedError("Invalid or expired token"), 401)
  /\ http.outcome = NULL

-----------------------------------------------------------------------------
(* Properties of the Result kernel (KernelSpec)                            *)

(* C20: map(result, fn) is ok(fn(value)) when result is ok(value) and is   *)
(* the failure itself, its error untouched, when result is a failure;      *)
(* isOk and isErr are complementary on every Result.                       *)
C20_MapAndTests ==
  kernel # NULL
    => /\ kernel.isOk # kernel.isErr
       /\ kernel.isOk = ("value" \in DOMAIN kernel.result)
       /\ kernel.isErr = ("error" \in DOMAIN kernel.result)
       /\ kernel.isOk
            => /\ DOMAIN kernel.mapped = {"ok", "value"}
               /\ kernel.mapped.ok
               /\ kernel.mapped.value = kernel.fn[kernel.result.value]
       /\ kernel.isErr
            => /\ kernel.mapped = kernel.result
               /\ kernel.mapped.error = kernel.result.error

C20_Witness ==
  /\ kernel # NULL /\ kernel.result = ok(3)
  /\ kernel.mapped = ok(6)

-----------------------------------------------------------------------------
(* Properties of list (ListSpec)                                           *)

Min(a, b) == IF a < b THEN a ELSE b
Max(a, b) == IF a > b THEN a ELSE b

(* C13: list(userId, page, limit) with page >= 1 and limit >= 1 returns    *)
(* only items of that user, without repetition, exactly                    *)
(* min(limit, max(0, total - (page - 1) * limit)) of them, total being the *)
(* number of items the user owns, and echoes page and limit; a user with   *)
(* no items gets the empty list and total 0.                               *)
C13_ListPage ==
  last.op = "list"
    => LET page == last.res.value
           owned == last.pre.owned
       IN /\ last.res.ok
          /\ page.total = Cardinality(owned)
          /\ page.page = last.page /\ page.limit = last.limit
          /\ Len(page.items) =
               Min(last.limit,
                   Max(0, page.total - (last.page - 1) * last.limit))
          /\ \A k \in DOMAIN page.items : page.items[k].id \in owned
          /\ \A j, k \in DOMAIN page.items :
               j # k => page.items[j].id # page.items[k].id
          /\ owned = {} => page.items = <<>> /\ page.total = 0
          /\ ~last.touched

C13_Witness ==
  /\ last.op = "list" /\ last.page = 1 /\ last.limit = 2
  /\ last.res.value.total = 3 /\ Len(last.res.value.items) = 2
  /\ \E i \in RowIds : items[i] # NULL /\ items[i].userId # last.userId

-----------------------------------------------------------------------------
(* Properties of the Item entity (EntitySpec)                              *)

ValidName(name) ==
  length(Trim(name)) >= 1 /\ length(Trim(name)) <= NAME_MAX
ValidDescription(description) == length(Trim(description)) <= DESC_MAX

(* C7: Item.create succeeds exactly when the trimmed name has length in    *)
(* 1..200 and the trimmed description has length at most 1000, and fails   *)
(* with VALIDATION_ERROR otherwise; updateDetails decides each supplied    *)
(* field by the same bounds on the trimmed value.                          *)
C7_TrimmedBoundsDecide ==
  /\ (entLast # NULL /\ entLast.op = "create")
       => /\ entLast.res.ok <=> (ValidName(entLast.name)
                                 /\ ValidDescription(entLast.description))
          /\ ~entLast.res.ok => entLast.res.error.code = "VALIDATION_ERROR"
  /\ (entLast # NULL /\ entLast.op = "update")
       => /\ entLast.res.ok <=>
               /\ entLast.name # UNDEFINED => ValidName(entLast.name)
               /\ entLast.description # UNDEFINED
                    => ValidDescription(entLast.description)
          /\ ~entLast.res.ok => entLast.res.error.code = "VALIDATION_ERROR"

(* C7 as amended: Item.create succeeds exactly when the trimmed name is    *)
(* not empty, the name as given has length at most 200 and the description *)
(* as given has length at most 1000, and fails with VALIDATION_ERROR        *)
(* otherwise; updateDetails decides each supplied field by the same tests.  *)
AcceptedName(name) == length(Trim(name)) >= 1 /\ length(name) <= NAME_MAX
AcceptedDescription(description) == length(description) <= DESC_MAX

C7_GivenLengthDecides ==
  /\ (entLast # NULL /\ entLast.op = "create")
       => /\ entLast.res.ok <=> (AcceptedName(entLast.name)
                                 /\ AcceptedDescription(entLast.description))
          /\ ~entLast.res.ok => entLast.res.error.code = "VALIDATION_ERROR"
  /\ (entLast # NULL /\ entLast.op = "update")
       => /\ entLast.res.ok <=>
               /\ entLast.name # UNDEFINED => AcceptedName(entLast.name)
               /\ entLast.description # UNDEFINED
                    => AcceptedDescription(entLast.description)
          /\ ~entLast.res.ok => entLast.res.error.code = "VALIDATION_ERROR"

C7_Witness ==
  /\ entLast # NULL /\ entLast.op = "create" /\ ~entLast.res.ok
  /\ length(Trim(entLast.name)) = NAME_MAX
  /\ length(entLast.name) > NAME_MAX
  /\ ValidDescription(entLast.description)

(* C8: every successful update, activate or deactivate returns the item    *)
(* with an updatedAt strictly greater than the updatedAt it had before.    *)
C8_UpdatedAtStrictlyIncreases ==
  (entLast # NULL /\ entLast.op \in {"update", "activate", "deactivate"}
     /\ entLast.res.ok)
    => entLast.res.value.updatedAt > entLast.pre.updatedAt

(* C10: a successful updateDetails changes only the supplied fields: an    *)
(* undefined field keeps its value, a supplied one becomes its trimmed     *)
(* input, and id, userId, createdAt and status are those of the item it    *)
(* was called on.                                                          *)
C10_UpdateDetailsFrame ==
  (entLast # NULL /\ entLast.op = "update" /\ entLast.res.ok)
    => LET this == entLast.pre
           new == entLast.res.value
       IN /\ new.name = IF entLast.name = UNDEFINED THEN this.name
                        ELSE Trim(entLast.name)
          /\ new.description =
               IF entLast.description = UNDEFINED THEN this.description
               ELSE Trim(entLast.description)
          /\ new.id = this.id /\ new.userId = this.userId
          /\ new.createdAt = this.createdAt /\ new.status = this.status

C10_Witness ==
  /\ entLast # NULL /\ entLast.op = "update" /\ entLast.res.ok
  /\ entLast.name # UNDEFINED /\ entLast.description = UNDEFINED
  /\ entLast.pre.status = "active"
  /\ entLast.pre.description # <<>>
  /\ entLast.res.value.name # entLast.pre.name

(* C25: on one item entity the successful activate and deactivate calls    *)
(* alternate, the first being an activate: a successful call is never      *)
(* preceded by a successful call of its own kind, and a successful         *)
(* deactivate is preceded by a successful activate.  The status is         *)
(* inactive or active, and a call succeeds exactly when it changes it.     *)
C25_TransitionsAlternate ==
  /\ ent # NULL => ent.status \in {"inactive", "active"}
  /\ (entLast # NULL /\ entLast.op \in {"activate", "deactivate"})
       => /\ entLast.res.ok <=> ent.status # entLast.pre.status
          /\ ~entLast.res.ok => ent = entLast.pre
          /\ entLast.res.ok
               => /\ entLast.since # entLast.op
                  /\ entLast.op = "deactivate" => entLast.since = "activate"
                  /\ ent.status = IF entLast.op = "activate" THEN "active"
                                  ELSE "inactive"

(* an activate that succeeds again after a deactivate, on an entity whose  *)
(* details were updated in between                                         *)
C25_Witness ==
  /\ entLast # NULL /\ entLast.op = "activate" /\ entLast.res.ok
  /\ entLast.since = "deactivate"
  /\ entLast.pre.updatedAt > entLast.pre.createdAt

-----------------------------------------------------------------------------
(* Properties of the auth use-cases (AuthSpec)                             *)

(* C2: a login that fails because no user has the email and a login that   *)
(* fails because the password is wrong return the same failure: the same   *)
(* code UNAUTHORIZED and the same message.                                 *)
C2_LoginFailuresAlike ==
  /\ (loginFailures.noUser # NULL /\ loginFailures.badPassword # NULL)
       => loginFailures.noUser = loginFailures.badPassword
  /\ \A r \in {loginFailures.noUser, loginFailures.badPassword} \ {NULL} :
       ~r.ok /\ r.error.code = "UNAUTHORIZED"
  /\ (authLast.op = "login" /\ ~authLast.res.ok)
       => authLast.res \in {loginFailures.noUser, loginFailures.badPassword}

C2_Witness ==
  /\ loginFailures.noUser # NULL /\ loginFailures.badPassword # NULL
  /\ authLast.op = "login" /\ ~authLast.res.ok /\ authLast.user # NULL

(* C4: a register call that begins after a register with the same email   *)
(* has returned ok returns CONFLICT without having changed the users       *)
(* table, never gets past its lookup, and the table holds one user for     *)
(* the email, with the id, name and password hash the first call stored.   *)
C4_SecondRegisterConflicts ==
  /\ (authLast.op = "register" /\ authLast.after)
       => /\ authLast.res = err(RegisterConflictError)
          /\ authLast.res.error.code = "CONFLICT"
          /\ ~authLast.touched
  /\ \A c \in CallIds :
       ~(authCalls[c].op = "register" /\ authCalls[c].after)
  /\ \A e \in registered : Cardinality({u \in users : u.email = e}) = 1

C4_Witness ==
  /\ authLast.op = "register" /\ authLast.after
  /\ ~authLast.res.ok
  /\ \E u \in users : u.email = authLast.email

(* what User.create is specified to accept                                *)
ValidUserInput(r) == Includes(r.email, "at") /\ length(Trim(r.name)) > 0

(* a returned register that got as far as User.create                      *)
ReachedUserCreate(r) ==
  r.op = "register" /\ r.res # err(RegisterConflictError) /\ r.res # Thrown

UserCreateDecides ==
  /\ ReachedUserCreate(authLast)
       => /\ authLast.res.ok <=> ValidUserInput(authLast)
          /\ ~authLast.res.ok
               => authLast.res.error.code = "VALIDATION_ERROR"
  /\ \A u \in users : ValidUserInput(u)

(* C16: User.create returns ok exactly when the email contains '@' and the *)
(* name is not empty after trimming, VALIDATION_ERROR otherwise; so a      *)
(* register with an email without '@' or a blank name fails with           *)
(* VALIDATION_ERROR and stores no user.                                    *)
C16_InvalidRegisterIsValidationError ==
  /\ UserCreateDecides
  /\ (authLast.op = "register" /\ ~ValidUserInput(authLast))
       => /\ ~authLast.res.ok
          /\ authLast.res.error.code = "VALIDATION_ERROR"
          /\ ~authLast.touched

(* C16 as amended: ... so a register with an email without '@' or a blank  *)
(* name fails and stores no user; it fails with VALIDATION_ERROR, except   *)
(* that it fails with CONFLICT when a user with that email is stored (the  *)
(* lookup by email comes before User.create).                              *)
C16_InvalidRegisterFails ==
  /\ UserCreateDecides
  /\ (authLast.op = "register" /\ ~ValidUserInput(authLast))
       => /\ ~authLast.res.ok
          /\ ~authLast.touched
          /\ \/ authLast.res.error.code = "VALIDATION_ERROR"
             \/ /\ authLast.res = err(RegisterConflictError)
                /\ \E u \in users : u.email = authLast.email

C16_Witness ==
  /\ authLast.op = "register"
  /\ Includes(authLast.email, "at") /\ length(Trim(authLast.name)) = 0
  /\ length(authLast.name) > 0
  /\ authLast.res = err(validationError("Name cannot be empty"))
  /\ users # {}

(* C17: the user object of every successful register or login response    *)
(* has exactly the fields id, email and name, with the values of a stored  *)
(* user; beside it the response holds only the token, whose claims are the *)
(* user id and the email; no returned value has a passwordHash field.      *)
C17_ResponseWithoutHash ==
  /\ (authLast.op \in {"register", "login"} /\ "ok" \in DOMAIN authLast.res
        /\ authLast.res.ok)
       => LET value == authLast.res.value IN
          /\ DOMAIN value = {"token", "user"}
          /\ DOMAIN value.user = {"id", "email", "name"}
          /\ DOMAIN value.token = {"userId", "email"}
          /\ \E u \in users :
               /\ value.user.id = u.id /\ value.user.email = u.email
               /\ value.user.name = u.name
               /\ value.token = sign(u.id, u.email)
  /\ (authLast.op \in {"register", "login"} /\ "ok" \in DOMAIN authLast.res
        /\ ~authLast.res.ok)
       => DOMAIN authLast.res.error = {"code", "message"}

C17_Witness ==
  /\ authLast.op = "login" /\ authLast.res.ok
  /\ \E u \in users :
       /\ u.email = authLast.email
       /\ PasswordVerify(authLast.password, u.passwordHash)
       /\ authLast.res.value.user.id = u.id

(* C22: the email check of register excludes nothing: two register calls   *)
(* with one unregistered email can both be past findByEmail and at         *)
(* repository.create for it.  CONFLICT is decided at the lookup alone: a   *)
(* call that returns CONFLICT never got as far as User.create and the      *)
(* email is stored, and a call at repository.create holds a user with the  *)
(* email it was called with.                                               *)
C22_ConflictOnlyAtLookup ==
  /\ \A c \in CallIds :
       (authCalls[c].op = "register" /\ authCalls[c].pc = "insert")
         => /\ authCalls[c].user # NULL
            /\ authCalls[c].user.email = authCalls[c].email
  /\ (authLast.op = "register" /\ authLast.res # NULL
       /\ ~IsThrown(authLast.res) /\ ~authLast.res.ok
       /\ authLast.res.error.code = "CONFLICT")
       => /\ authLast.user = NULL
          /\ \E u \in users : u.email = authLast.email

(* both calls are at repository.create with the same, still unstored email *)
C22_Witness ==
  /\ \A c \in {1, 2} :
       authCalls[c].op = "register" /\ authCalls[c].pc = "insert"
  /\ authCalls[1].email = authCalls[2].email
  /\ authCalls[1].user.id # authCalls[2].user.id
  /\ \A u \in users : u.email # authCalls[1].email

(* C23: no two stored users have the same email, however register calls    *)
(* interleave; a register call whose insert the unique index rejected      *)
(* ends in the thrown error, with no token and no success result, its own  *)
(* user is not stored and the email belongs to another stored user.        *)
C23_EmailsUnique ==
  /\ \A u, v \in users : u.email = v.email => u = v
  /\ (authLast.op = "register" /\ authLast.res # NULL
       /\ IsThrown(authLast.res))
       => /\ authLast.res = Thrown
          /\ authLast.user # NULL
          /\ \A u \in users : u.id # authLast.user.id
          /\ \E u \in users : u.email = authLast.email

(* the second of two overlapping registrations was rejected by the index   *)
C23_Witness ==
  /\ authLast.op = "register" /\ authLast.res = Thrown
  /\ \E u \in users :
       u.email = authLast.email /\ u.id # authLast.user.id

(* the stored user that a register call with these arguments created       *)
RegisteredAs(u, r) ==
  /\ u.email = r.email
  /\ \E salt \in 1..MaxSalt :
       u.passwordHash = PasswordHash(r.password, salt)

LoginLeavesUsers ==
  (\E c \in CallIds : authCalls[c].op = "login" /\ authCalls'[c].op # "login")
  \/ (authLast' # authLast /\ authLast'.op = "login")
    => users' = users

RegisterThenLogin ==
  /\ (authLast.op = "register" /\ authLast.res # NULL
       /\ ~IsThrown(authLast.res) /\ authLast.res.ok)
       => \E u \in users :
            /\ RegisteredAs(u, authLast)
            /\ authLast.res.value.user = UserToResponse(UserFromPersistence(u))
  /\ (authLast.op = "login" /\ authLast.after)
       => /\ \E u \in users : u.email = authLast.email
          /\ \A u \in users :
               RegisteredAs(u, authLast)
                 => /\ authLast.res.ok
                    /\ authLast.res.value.user
                         = UserToResponse(UserFromPersistence(u))
                    /\ authLast.res.value.token = sign(u.id, u.email)
  /\ authLast.op = "login" => ~authLast.touched

(* C24: once register(email, password, name) has returned ok, the user it  *)
(* returned is stored under that email with that password's hash, and a   *)
(* login with the same email and password returns ok with that user's id, *)
(* email and name; no step of login changes the users table.               *)
C24_LoginAfterRegister == []RegisterThenLogin /\ [][LoginLeavesUsers]_vars

C24_Witness ==
  /\ authLast.op = "login" /\ authLast.after /\ authLast.res.ok
  /\ \E u \in users :
       /\ RegisteredAs(u, authLast)
       /\ authLast.res.value.user.id = u.id
       /\ authLast.res.value.user.name = u.name
  /\ Cardinality(users) = 2

(* the row of the users table that holds this User                         *)
StoredUser(user) ==
  \E u \in users :
    /\ u.id = user.id /\ u.email = user.email /\ u.name = user.name
    /\ u.passwordHash = user.passwordHash

(* C27: in register a user is at repository.create only after the lookup   *)
(* found nobody and User.create accepted it, and is not stored before; a   *)
(* call is at the token only when its user is stored; every stored user    *)
(* passed User.create; and a register call that returns a token returns it *)
(* for a stored user, while one that fails has stored nothing.             *)
C27_RegisterOrder ==
  /\ \A u \in users : ValidUserInput(u)
  /\ \A c \in CallIds :
       authCalls[c].op = "register"
         => /\ authCalls[c].pc = "hash"
                 => authCalls[c].user = NULL /\ ~authCalls[c].touched
            /\ authCalls[c].pc = "insert"
                 => /\ UserCreate(authCalls[c].user).ok
                    /\ \A u \in users : u.id # authCalls[c].user.id
                    /\ ~authCalls[c].touched
            /\ authCalls[c].pc = "sign"
                 => StoredUser(authCalls[c].user) /\ authCalls[c].touched
  /\ (authLast.op = "register" /\ authLast.res # NULL)
       => IF ~IsThrown(authLast.res) /\ authLast.res.ok
          THEN /\ StoredUser(authLast.user) /\ authLast.touched
               /\ authLast.res.value.token
                    = sign(authLast.user.id, authLast.user.email)
               /\ authLast.res.value.user.id = authLast.user.id
          ELSE /\ ~authLast.touched
               /\ authLast.user # NULL
                    => \A u \in users : u.id # authLast.user.id

(* a register that returned its token while another was already stored     *)
C27_Witness ==
  /\ authLast.op = "register" /\ ~IsThrown(authLast.res)
  /\ authLast.res.ok /\ authLast.touched
  /\ StoredUser(authLast.user)
  /\ authLast.res.value.token.userId = authLast.user.id
  /\ \E u \in users : u.id # authLast.user.id

====
